---- MODULE Spec2Model ----
(***************************************************************************)
(* dbgen: synthetic customer and purchase generators (scripts/gerar_*.py)  *)
(* and the HTTP handlers of app.py that run them in memory.                *)
(*                                                                         *)
(* Text is a sequence of one-character strings, so that strip, split,     *)
(* replace, formatting and parsing are computed as the code computes them. *)
(* Money is an integer number of thousandths (mills) of the currency unit. *)
(***************************************************************************)
EXTENDS Integers, Sequences, FiniteSets, TLC

\* ------------------------------------------------------------------ bounds
MaxSeed == 1          \* seeds are 0..MaxSeed
MaxTarget == 5        \* requested purchase rows are 0..MaxTarget
MaxFiliais == 2       \* requested branch counts are 0..MaxFiliais
MaxCount == 4         \* requested customer counts are 0..MaxCount, one request alone
MaxConcurrent == 2    \* requested customer counts are 0..MaxConcurrent, two requests at once
MaxEntropy == 3       \* start states of the process-wide generators are 0..MaxEntropy
MaxTokens == 3        \* names given to gerar_email_local have 1..MaxTokens words

Runs == {1, 2}        \* two requests of the same arguments, processed concurrently

\* --------------------------------------------------------- text helpers
Digits == <<"0", "1", "2", "3", "4", "5", "6", "7", "8", "9">>

Max(a, b) == IF a >= b THEN a ELSE b

RECURSIVE IntToStr(_)
\* str(n) for n >= 0
IntToStr(n) ==
    IF n < 10 THEN <<Digits[n + 1]>>
    ELSE IntToStr(n \div 10) \o <<Digits[(n % 10) + 1]>>

RECURSIVE ZeroPad(_, _)
\* format(n, "0{w}d") for n >= 0: at least w digits, zero filled
ZeroPad(n, w) ==
    LET s == IntToStr(n)
    IN  IF Len(s) >= w THEN s ELSE <<"0">> \o ZeroPad(n, w - 1)

IsDigit(c) == \E k \in 1..10 : Digits[k] = c

DigitVal(c) == (CHOOSE k \in 1..10 : Digits[k] = c) - 1

RECURSIVE StrToInt(_)
\* int(s) for a non-empty all-digit s
StrToInt(s) ==
    IF Len(s) = 1 THEN DigitVal(s[1])
    ELSE 10 * StrToInt(SubSeq(s, 1, Len(s) - 1)) + DigitVal(s[Len(s)])

AllDigits(s) == Len(s) > 0 /\ \A k \in 1..Len(s) : IsDigit(s[k])

IsSpace(c) == c \in {" ", "\t"}

RECURSIVE LStrip(_)
LStrip(s) == IF Len(s) > 0 /\ IsSpace(s[1]) THEN LStrip(Tail(s)) ELSE s

RECURSIVE RStrip(_)
RStrip(s) ==
    IF Len(s) > 0 /\ IsSpace(s[Len(s)]) THEN RStrip(SubSeq(s, 1, Len(s) - 1)) ELSE s

\* str.strip()
Strip(s) == RStrip(LStrip(s))

StartsWith(s, p) == Len(s) >= Len(p) /\ SubSeq(s, 1, Len(p)) = p

RECURSIVE Replace(_, _, _)
\* str.replace(old, new) for a non-empty old: leftmost, non-overlapping
Replace(s, old, new) ==
    IF Len(s) = 0 THEN <<>>
    ELSE IF StartsWith(s, old)
         THEN new \o Replace(SubSeq(s, Len(old) + 1, Len(s)), old, new)
         ELSE <<s[1]>> \o Replace(Tail(s), old, new)

RECURSIVE SplitOn(_, _, _)
\* str.split(sep) for a one-character sep; acc is the field being read
SplitOn(s, sep, acc) ==
    IF Len(s) = 0 THEN <<acc>>
    ELSE IF s[1] = sep THEN <<acc>> \o SplitOn(Tail(s), sep, <<>>)
         ELSE SplitOn(Tail(s), sep, Append(acc, s[1]))

RECURSIVE SplitWs(_, _)
\* str.split(): fields between runs of whitespace, no empty fields
SplitWs(s, acc) ==
    IF Len(s) = 0 THEN (IF Len(acc) > 0 THEN <<acc>> ELSE <<>>)
    ELSE IF IsSpace(s[1])
         THEN (IF Len(acc) > 0 THEN <<acc>> ELSE <<>>) \o SplitWs(Tail(s), <<>>)
         ELSE SplitWs(Tail(s), Append(acc, s[1]))

RECURSIVE SelectChars(_, _)
\* "".join(ch for ch in s if ch in allowed)
SelectChars(s, allowed) ==
    IF Len(s) = 0 THEN <<>>
    ELSE (IF s[1] \in allowed THEN <<s[1]>> ELSE <<>>) \o SelectChars(Tail(s), allowed)

Range(f) == {f[k] : k \in DOMAIN f}

\* ------------------------------------------------------------- calendar
IsLeap(y) == (y % 4 = 0 /\ y % 100 # 0) \/ y % 400 = 0

DaysInMonth(y, m) ==
    IF m = 2 THEN (IF IsLeap(y) THEN 29 ELSE 28)
    ELSE IF m \in {4, 6, 9, 11} THEN 30 ELSE 31

\* days before January 1st of year y (proleptic Gregorian, year 1 first)
DaysBeforeYear(y) ==
    (y - 1) * 365 + (y - 1) \div 4 - (y - 1) \div 100 + (y - 1) \div 400

RECURSIVE DaysBeforeMonth(_, _)
DaysBeforeMonth(y, m) == IF m <= 1 THEN 0 ELSE DaysBeforeMonth(y, m - 1) + DaysInMonth(y, m - 1)

\* datetime(y, m, d).toordinal(): 0001-01-01 is day 1
Ordinal(y, m, d) == DaysBeforeYear(y) + DaysBeforeMonth(y, m) + d

RECURSIVE YearOf(_, _)
\* the year of day n, searched upwards from a year that is not after it
YearOf(n, y) == IF n <= DaysBeforeYear(y + 1) THEN y ELSE YearOf(n, y + 1)

RECURSIVE MonthOf(_, _, _)
\* the month of the n-th day (1-based) of year y, and the day in it
MonthOf(n, y, m) ==
    IF n <= DaysInMonth(y, m) THEN <<m, n>> ELSE MonthOf(n - DaysInMonth(y, m), y, m + 1)

\* datetime.fromordinal(n) as (year, month, day)
FromOrdinal(n) ==
    LET y == YearOf(n, (n - 1) \div 366 + 1)
        md == MonthOf(n - DaysBeforeYear(y), y, 1)
    IN  <<y, md[1], md[2]>>

\* datetime.strptime(s, "%Y-%m-%d"): the day's ordinal, or -1 for ValueError
Strptime(s) ==
    LET f == SplitOn(s, "-", <<>>)
    IN  IF Len(f) # 3 THEN -1
        ELSE IF ~(AllDigits(f[1]) /\ AllDigits(f[2]) /\ AllDigits(f[3])) THEN -1
        ELSE IF Len(f[1]) # 4 \/ Len(f[2]) > 2 \/ Len(f[3]) > 2 THEN -1
        ELSE LET y == StrToInt(f[1])
                 m == StrToInt(f[2])
                 d == StrToInt(f[3])
             IN  IF y < 1 \/ m < 1 \/ m > 12 \/ d < 1 \/ d > DaysInMonth(y, m)
                 THEN -1
                 ELSE Ordinal(y, m, d)

\* d.strftime("%Y-%m-%d")
Strftime(n) ==
    LET ymd == FromOrdinal(n)
    IN  ZeroPad(ymd[1], 4) \o <<"-">> \o ZeroPad(ymd[2], 2) \o <<"-">> \o ZeroPad(ymd[3], 2)

\* ------------------------------------------------- random.Random instances
\* A generator is a sequential state; every draw advances it once and is a
\* function of the new state (the Mersenne Twister reduced to 8 bits).
RngModulus == 256

RngSeed(seed) == (seed * 37 + 11) % RngModulus

RngNext(s) == (s * 101 + 59) % RngModulus

\* rng.randint(a, b): <<value, new state>>
RandInt(s, a, b) == LET t == RngNext(s) IN <<a + (t * (b - a + 1)) \div RngModulus, t>>

\* rng.uniform(a, b) = a + (b - a) * random(): <<value, new state>>
Uniform(s, a, b) == LET t == RngNext(s) IN <<a + ((b - a) * t) \div RngModulus, t>>

\* rng.choice(seq): <<value, new state>>
Choice(s, seq) == LET t == RngNext(s) IN <<seq[1 + (t * Len(seq)) \div RngModulus], t>>


\* ------------------------------------------------- scripts/gerar_compras.py
RECURSIVE gerar_datas(_, _, _, _)

\* gerar_datas drawing its offset from 0..delta+1
gerar_datas_alem(n, inicio, fim, rng) ==
    IF n = 0 THEN <<<<>>, rng>>
    ELSE LET delta == IF fim - inicio < 0 THEN 0 ELSE fim - inicio
             draw == IF delta > 0 THEN RandInt(rng, 0, delta + 1) ELSE <<0, rng>>
             rest == gerar_datas(n - 1, inicio, fim, draw[2])
         IN  <<<<Strftime(inicio + draw[1])>> \o rest[1], rest[2]>>

\* n dates between inicio and fim (ordinals) drawn from rng: <<datas, rng>>;
\* the caller has already excluded fim < inicio
gerar_datas(n, inicio, fim, rng) ==
    IF n = 0 THEN <<<<>>, rng>>
    ELSE LET delta == IF fim - inicio < 0 THEN 0 ELSE fim - inicio
             draw == IF delta > 0 THEN RandInt(rng, 0, delta) ELSE <<0, rng>>
             rest == gerar_datas(n - 1, inicio, fim, draw[2])
         IN  <<<<Strftime(inicio + draw[1])>> \o rest[1], rest[2]>>

\* branch codes F001, F002, ...
gerar_filiais(qtd) == [i \in 1..Max(1, qtd) |-> <<"F">> \o ZeroPad(i, 3)]

\* escolher(iterable, rng) = rng.choice(list(iterable))
escolher(seq, rng) == Choice(rng, seq)

\* round(x, 2) of an amount in mills: to the nearest cent, ties to the even
\* cent (a float that is exactly a tie is rounded half to even)
Round2(x) ==
    LET q == x \div 10
        r == x % 10
    IN  IF r < 5 THEN 10 * q
        ELSE IF r > 5 THEN 10 * (q + 1)
        ELSE IF q % 2 = 0 THEN 10 * q ELSE 10 * (q + 1)

\* the coverage loop drawing its customer at random
LinhaCobertura_aleatoria(idx, codigos, datas, filiais, valor_min, valor_max, rng) ==
    LET c == escolher(codigos, rng)
        data == datas[(idx % Len(datas)) + 1]
        v == Uniform(c[2], valor_min, valor_max)
        f == escolher(filiais, v[2])
    IN  <<<<c[1], data, Round2(v[1]), f[1]>>, f[2]>>

\* the coverage loop walking the customers from the last to the first
LinhaCobertura_inversa(idx, codigos, datas, filiais, valor_min, valor_max, rng) ==
    LET data == datas[(idx % Len(datas)) + 1]
        v == Uniform(rng, valor_min, valor_max)
        f == escolher(filiais, v[2])
    IN  <<<<codigos[Len(codigos) - idx], data, Round2(v[1]), f[1]>>, f[2]>>

\* the row of the coverage loop for the 0-based index idx: <<row, rng>>
LinhaCobertura(idx, codigos, datas, filiais, valor_min, valor_max, rng) ==
    LET data == datas[(idx % Len(datas)) + 1]
        v == Uniform(rng, valor_min, valor_max)
        f == escolher(filiais, v[2])
    IN  <<<<codigos[idx + 1], data, Round2(v[1]), f[1]>>, f[2]>>

\* the row of the fill loop for its counter i, with nrows rows already there
LinhaRestante(i, nrows, codigos, datas, filiais, valor_min, valor_max, rng) ==
    LET c == escolher(codigos, rng)
        data == datas[((nrows + i) % Len(datas)) + 1]
        v == Uniform(c[2], valor_min, valor_max)
        f == escolher(filiais, v[2])
    IN  <<<<c[1], data, Round2(v[1]), f[1]>>, f[2]>>

\* the fill loop adding the whole target on top of the coverage rows
Faltantes_total(total_linhas, nrows) == total_linhas

\* gerar_compras.py 113: the rows the fill loop has to add
Faltantes(total_linhas, nrows) == total_linhas - nrows

\* f"{valor:.2f}" of an amount in mills
FormatValor(v) ==
    LET cents == Round2(v) \div 10
    IN  IntToStr(cents \div 100) \o <<".">> \o ZeroPad(cents % 100, 2)

\* ------------------------------------------------------------------ app.py
MAX_CLIENTS == 3      \* DBGEN_MAX_CLIENTS as configured for the model

MAX_PURCHASES == 4    \* DBGEN_MAX_PURCHASES as configured for the model

CodeColumns == <<"CódigoCliente", "CodigoCliente", "Codigo", "Código">>

\* the first accepted header name present in fieldnames, or "" for none
DetectField(fieldnames) ==
    LET hits == {k \in 1..Len(CodeColumns) : CodeColumns[k] \in Range(fieldnames)}
    IN  IF hits = {} THEN ""
        ELSE CodeColumns[CHOOSE k \in hits : \A j \in hits : k <= j]

\* row.get(field) or "": a row shorter than the header has no such cell
CellOf(fieldnames, row, field) ==
    LET k == CHOOSE j \in 1..Len(fieldnames) : fieldnames[j] = field
    IN  IF k <= Len(row) THEN row[k] ELSE <<>>

RECURSIVE CollectCodes(_, _, _)
CollectCodes(fieldnames, records, field) ==
    IF Len(records) = 0 THEN <<>>
    ELSE LET code == Strip(CellOf(fieldnames, records[1], field))
         IN  (IF Len(code) > 0 THEN <<code>> ELSE <<>>)
             \o CollectCodes(fieldnames, Tail(records), field)

\* _parse_client_codes_from_upload: the codes, or the detail of the HTTP 400
parse_client_codes(upload) ==
    LET field == DetectField(upload.fieldnames)
    IN  IF field = ""
        THEN [detail |-> "CSV must contain a 'CódigoCliente' column", codes |-> <<>>]
        ELSE LET codes == CollectCodes(upload.fieldnames, upload.records, field)
             IN  IF Len(codes) = 0
                 THEN [detail |-> "No client codes found in CSV", codes |-> <<>>]
                 ELSE [detail |-> "", codes |-> codes]

\* the checks without the one on the value range
PurchaseError_semValor(a) ==
    IF a.rows_total < 1 THEN "rows must be >= 1"
    ELSE IF a.rows_total > MAX_PURCHASES THEN "rows exceeds limit"
    ELSE IF Strptime(a.inicio_str) = -1 \/ Strptime(a.fim_str) = -1
         THEN "Invalid date format. Use YYYY-MM-DD"
    ELSE IF Strptime(a.fim_str) < Strptime(a.inicio_str) THEN "fim earlier than inicio"
    ELSE parse_client_codes(a.clients_csv).detail

\* the checks of _in_memory_purchases in their order: "" when all pass
PurchaseError(a) ==
    IF a.rows_total < 1 THEN "rows must be >= 1"
    ELSE IF a.rows_total > MAX_PURCHASES THEN "rows exceeds limit"
    ELSE IF a.valor_max < a.valor_min THEN "valor_max must be >= valor_min"
    ELSE IF Strptime(a.inicio_str) = -1 \/ Strptime(a.fim_str) = -1
         THEN "Invalid date format. Use YYYY-MM-DD"
    ELSE IF Strptime(a.fim_str) < Strptime(a.inicio_str) THEN "fim earlier than inicio"
    ELSE parse_client_codes(a.clients_csv).detail

\* ------------------------------------------------------------ the inputs
Cod1 == <<"C", "1">>
Cod2 == <<"C", "2">>
Cod3 == <<"C", "3">>

Uploads == {
    \* two customers; the preferred header wins over a later variant
    [fieldnames |-> <<"Codigo", "CódigoCliente">>,
     records |-> << <<<<"X", "9">>, Cod1>>, <<<<"X", "8">>, <<" ", "C", "2", " ">>>> >>],
    \* three customers out of sorted order, a short row and a blank cell skipped
    [fieldnames |-> <<"Nome", "Codigo">>,
     records |-> << <<<<"a">>, Cod3>>, <<<<"b">>>>, <<<<"c">>, <<" ", " ">>>>, <<<<"d">>, Cod1>>, <<<<"e">>, <<"C", "2", "\t">>>> >>],
    \* one customer
    [fieldnames |-> <<"Código">>, records |-> << <<Cod1>> >>],
    \* no customer-code column
    [fieldnames |-> <<"Nome", "Email">>, records |-> << <<<<"a">>, <<"b">>>> >>],
    \* an empty file: no header at all
    [fieldnames |-> <<>>, records |-> <<>>],
    \* a customer-code column with no code in it
    [fieldnames |-> <<"CodigoCliente">>, records |-> << <<<<>>>>, <<<<" ">>>> >>] }

\* (valor_min, valor_max) in mills
ValorRanges == { <<10000, 10000>>, <<10000, 10050>>, <<10004, 10007>>, <<20000, 10000>> }

\* (inicio, fim)
DateRanges == {
    <<<<"2", "0", "2", "4", "-", "0", "2", "-", "2", "8">>, <<"2", "0", "2", "4", "-", "0", "3", "-", "0", "1">>>>,
    <<<<"2", "0", "2", "4", "-", "0", "2", "-", "2", "9">>, <<"2", "0", "2", "4", "-", "0", "2", "-", "2", "9">>>>,
    <<<<"2", "0", "2", "3", "-", "1", "2", "-", "3", "1">>, <<"2", "0", "2", "4", "-", "1", "-", "1">>>>,
    <<<<"2", "0", "2", "4", "-", "0", "3", "-", "0", "1">>, <<"2", "0", "2", "4", "-", "0", "2", "-", "2", "8">>>>,
    <<<<"2", "0", "2", "4", "-", "1", "3", "-", "0", "1">>, <<"2", "0", "2", "4", "-", "1", "2", "-", "3", "1">>>>,
    <<<<"2", "0", "2", "3", "-", "0", "1", "-", "0", "1">>, <<"2", "0", "2", "3", "-", "0", "2", "-", "2", "9">>>> }

PurchaseArgs ==
    { [clients_csv |-> u, rows_total |-> n, valor_min |-> v[1], valor_max |-> v[2],
       inicio_str |-> d[1], fim_str |-> d[2], filiais_qtd |-> f, seed |-> s] :
      u \in Uploads, n \in 0..MaxTarget, v \in ValorRanges, d \in DateRanges,
      f \in 0..MaxFiliais, s \in 0..MaxSeed }


\* ------------------------------------------------------------------ state
VARIABLES
    compraArgs,       \* the arguments of the purchase requests
    compra,           \* per request: the locals of _in_memory_purchases
    clienteArgs,      \* the arguments of the customer requests
    cliente,          \* per request: the locals of _in_memory_clients
    random_module,    \* the state of the generator behind random.choice/randint
    faker_random,     \* the state of the generator unseeded Faker instances share
    drawers           \* per process-wide generator: the requests that drew from it

vars == <<compraArgs, compra, clienteArgs, cliente, random_module, faker_random, drawers>>

NoRng == -1           \* no generator constructed yet

CompraIdle ==
    [pc |-> "idle", status |-> 0, detail |-> "", codigos |-> <<>>, rng |-> NoRng,
     datas |-> <<>>, filiais |-> <<>>, total_linhas |-> 0, rows |-> <<>>,
     faltantes |-> 0, i |-> 0, csv |-> <<>>]

ClienteIdle ==
    [pc |-> "idle", status |-> 0, detail |-> "", fake |-> NoRng, i |-> 0,
     nome |-> <<>>, cpf |-> 0, usados_cpf |-> {}, usados_email |-> {},
     rows |-> <<>>, csv |-> <<>>]

NoArgs == [none |-> TRUE]

\* --------------------------------------------- _in_memory_purchases, by step
\* app.py 165-181: every check, then the customer codes
Validar(r) ==
    /\ compra[r].pc = "validate"
    /\ LET e == PurchaseError(compraArgs)
       IN  compra' = [compra EXCEPT ![r] =
               IF e # ""
               THEN [@ EXCEPT !.pc = "done", !.status = 400, !.detail = e]
               ELSE [@ EXCEPT !.pc = "prepare",
                              !.codigos = parse_client_codes(compraArgs.clients_csv).codes]]
    /\ UNCHANGED <<compraArgs, clienteArgs, cliente, random_module, faker_random, drawers>>

\* the generator constructed without the seed: seeded from system entropy
Preparar_semSeed(r) ==
    /\ compra[r].pc = "prepare"
    /\ \E e \in 0..MaxEntropy :
         LET a == compraArgs
             d == gerar_datas(Max(a.rows_total, Len(compra[r].codigos)),
                              Strptime(a.inicio_str), Strptime(a.fim_str), RngSeed(e))
         IN  compra' = [compra EXCEPT ![r] =
                 [@ EXCEPT !.pc = "montar", !.datas = d[1], !.rng = d[2],
                           !.filiais = gerar_filiais(a.filiais_qtd)]]
    /\ UNCHANGED <<compraArgs, clienteArgs, cliente, random_module, faker_random, drawers>>

\* app.py 183-185: the seeded generator, the DatePool and the BranchPool
Preparar(r) ==
    /\ compra[r].pc = "prepare"
    /\ LET a == compraArgs
           d == gerar_datas(Max(a.rows_total, Len(compra[r].codigos)),
                            Strptime(a.inicio_str), Strptime(a.fim_str), RngSeed(a.seed))
       IN  compra' = [compra EXCEPT ![r] =
               [@ EXCEPT !.pc = "montar", !.datas = d[1], !.rng = d[2],
                         !.filiais = gerar_filiais(a.filiais_qtd)]]
    /\ UNCHANGED <<compraArgs, clienteArgs, cliente, random_module, faker_random, drawers>>

\* gerar_compras.py 97-103: montar_compras up to its first loop
MontarInicio(r) ==
    /\ compra[r].pc = "montar"
    /\ compra' = [compra EXCEPT ![r] =
           IF compraArgs.valor_max < compraArgs.valor_min
           THEN [@ EXCEPT !.pc = "done", !.status = 500,
                          !.detail = "valor_max deve ser >= valor_min"]
           ELSE [@ EXCEPT !.pc = "coverage", !.rows = <<>>,
                          !.total_linhas =
                              Max(compraArgs.rows_total, Len(compra[r].codigos))]]
    /\ UNCHANGED <<compraArgs, clienteArgs, cliente, random_module, faker_random, drawers>>

\* gerar_compras.py 106-113: one iteration of the coverage loop; the last one
\* goes on to compute how many rows are still missing
Cobertura(r) ==
    /\ compra[r].pc = "coverage"
    /\ LET c == compra[r]
           l == LinhaCobertura(Len(c.rows), c.codigos, c.datas, c.filiais,
                               compraArgs.valor_min, compraArgs.valor_max, c.rng)
           rows == Append(c.rows, l[1])
       IN  compra' = [compra EXCEPT ![r] =
               IF Len(rows) < Len(c.codigos)
               THEN [@ EXCEPT !.rows = rows, !.rng = l[2]]
               ELSE [@ EXCEPT !.rows = rows, !.rng = l[2], !.pc = "fill",
                              !.faltantes = Faltantes(c.total_linhas, Len(rows)), !.i = 0]]
    /\ UNCHANGED <<compraArgs, clienteArgs, cliente, random_module, faker_random, drawers>>

\* gerar_compras.py 114-119: one iteration of the fill loop
Restante(r) ==
    /\ compra[r].pc = "fill"
    /\ compra[r].i < compra[r].faltantes
    /\ LET c == compra[r]
           l == LinhaRestante(c.i, Len(c.rows), c.codigos, c.datas, c.filiais,
                              compraArgs.valor_min, compraArgs.valor_max, c.rng)
       IN  compra' = [compra EXCEPT ![r] =
               [@ EXCEPT !.rows = Append(c.rows, l[1]), !.rng = l[2], !.i = c.i + 1]]
    /\ UNCHANGED <<compraArgs, clienteArgs, cliente, random_module, faker_random, drawers>>

\* the CSV text: the header, then one line per row
CsvCompras(rows) ==
    << <<"CódigoCliente", "DataCompra", "Valor", "CódigoFilial">> >>
    \o [k \in 1..Len(rows) |-> <<rows[k][1], rows[k][2], FormatValor(rows[k][3]), rows[k][4]>>]

\* app.py 197-220: the rows are returned and encoded
Exportar(r) ==
    /\ compra[r].pc = "fill"
    /\ compra[r].i >= compra[r].faltantes
    /\ compra' = [compra EXCEPT ![r] =
           [@ EXCEPT !.pc = "done", !.status = 200, !.csv = CsvCompras(compra[r].rows)]]
    /\ UNCHANGED <<compraArgs, clienteArgs, cliente, random_module, faker_random, drawers>>

InitCompras ==
    /\ compraArgs \in PurchaseArgs
    /\ compra = [r \in Runs |-> [CompraIdle EXCEPT !.pc = "validate"]]
    /\ clienteArgs = NoArgs
    /\ cliente = [r \in Runs |-> ClienteIdle]
    /\ random_module = 0
    /\ faker_random = 0
    /\ drawers = [g \in {"random", "faker"} |-> {}]

NextCompras ==
    \E r \in Runs :
        \/ Validar(r)
        \/ Preparar(r)
        \/ MontarInicio(r)
        \/ Cobertura(r)
        \/ Restante(r)
        \/ Exportar(r)

SpecCompras == InitCompras /\ [][NextCompras]_vars


\* ------------------------------------------------ scripts/gerar_clientes.py
\* area codes (a subset of the Brazilian DDDs)
DDDS ==
    <<11, 12, 13, 14, 15, 16, 17, 18, 19, 21, 22, 24, 27, 28, 31, 32, 33, 34, 35, 37, 38,
      41, 42, 43, 44, 45, 46, 47, 48, 49, 51, 53, 54, 55, 61, 62, 63, 64, 65, 66, 67, 68, 69,
      71, 73, 74, 75, 77, 79, 81, 82, 83, 84, 85, 86, 87, 88, 89,
      91, 92, 93, 94, 95, 96, 97, 98, 99>>

UpperCase ==
    <<"A", "B", "C", "D", "E", "F", "G", "H", "I", "J", "K", "L", "M", "N", "O", "P", "Q",
      "R", "S", "T", "U", "V", "W", "X", "Y", "Z", "Á", "Ã", "É", "Í", "Ó", "Ú", "Ç">>

LowerCase ==
    <<"a", "b", "c", "d", "e", "f", "g", "h", "i", "j", "k", "l", "m", "n", "o", "p", "q",
      "r", "s", "t", "u", "v", "w", "x", "y", "z", "á", "ã", "é", "í", "ó", "ú", "ç">>

Accented == <<"á", "ã", "é", "í", "ó", "ú", "ç", "Á", "Ã", "É", "Í", "Ó", "Ú", "Ç">>

Unaccented == <<"a", "a", "e", "i", "o", "u", "c", "A", "A", "E", "I", "O", "U", "C">>

MapChar(c, from, to) ==
    IF \E k \in 1..Len(from) : from[k] = c
    THEN to[CHOOSE k \in 1..Len(from) : from[k] = c]
    ELSE c

\* str.lower()
Lower(s) == [k \in 1..Len(s) |-> MapChar(s[k], UpperCase, LowerCase)]

\* NFD decomposition with the combining marks dropped
remove_accents(s) == [k \in 1..Len(s) |-> MapChar(s[k], Accented, Unaccented)]

Titles ==
    <<<<"S", "r", ".">>, <<"S", "r", "a", ".">>, <<"S", "r">>, <<"S", "r", "a">>, <<"D", "r", ".">>, <<"D", "r", "a", ".">>, <<"D", "r">>, <<"D", "r", "a">>, <<"P", "r", "o", "f", ".">>, <<"P", "r", "o", "f">>>>

RECURSIVE RemoveTitles(_, _)
RemoveTitles(nome, k) ==
    IF k > Len(Titles) THEN nome
    ELSE RemoveTitles(Replace(Replace(nome, Titles[k] \o <<" ">>, <<>>), Titles[k], <<>>), k + 1)

\* gerar_nome, applied to the name fake.name() returned
gerar_nome(raw) == Strip(RemoveTitles(raw, 1))

Connectors == {<<"d", "a">>, <<"d", "e">>, <<"d", "o">>, <<"d", "o", "s">>, <<"d", "a", "s">>}

ConnectorPatterns == <<<<" ", "d", "a", " ">>, <<" ", "d", "e", " ">>, <<" ", "d", "o", " ">>, <<" ", "d", "o", "s", " ">>, <<" ", "d", "a", "s", " ">>>>

RECURSIVE ReplaceConnectors(_, _)
ReplaceConnectors(base, k) ==
    IF k > Len(ConnectorPatterns) THEN base
    ELSE ReplaceConnectors(Replace(base, ConnectorPatterns[k], <<" ">>), k + 1)

Permitido ==
    {"a", "b", "c", "d", "e", "f", "g", "h", "i", "j", "k", "l", "m", "n", "o", "p", "q",
     "r", "s", "t", "u", "v", "w", "x", "y", "z",
     "0", "1", "2", "3", "4", "5", "6", "7", "8", "9", ".", "-"}

RECURSIVE StripDots(_)
\* str.strip(".")
StripDots(s) ==
    IF Len(s) > 0 /\ s[1] = "." THEN StripDots(Tail(s))
    ELSE IF Len(s) > 0 /\ s[Len(s)] = "." THEN StripDots(SubSeq(s, 1, Len(s) - 1))
    ELSE s

\* the local part falling back to the placeholder for a single token too
gerar_email_local_semUnico(nome) ==
    LET base == ReplaceConnectors(remove_accents(Lower(nome)), 1)
        partes == SelectSeq(SplitWs(base, <<>>), LAMBDA p : p \notin Connectors)
    IN  IF Len(partes) < 2 THEN <<"c", "l", "i", "e", "n", "t", "e">>
        ELSE LET limpo == StripDots(SelectChars(partes[1] \o <<".">> \o partes[Len(partes)],
                                                Permitido))
             IN  IF Len(limpo) = 0 THEN <<"c", "l", "i", "e", "n", "t", "e">> ELSE limpo

\* the e-mail local part of a full name
gerar_email_local(nome) ==
    LET base == ReplaceConnectors(remove_accents(Lower(nome)), 1)
        partes == SelectSeq(SplitWs(base, <<>>), LAMBDA p : p \notin Connectors)
    IN  IF Len(partes) = 0 THEN <<"c", "l", "i", "e", "n", "t", "e">>
        ELSE LET local == IF Len(partes) >= 2
                          THEN partes[1] \o <<".">> \o partes[Len(partes)]
                          ELSE partes[1]
                 limpo == StripDots(SelectChars(local, Permitido))
             IN  IF Len(limpo) = 0 THEN <<"c", "l", "i", "e", "n", "t", "e">> ELSE limpo

\* gerar_codigo: C00001, C00002, ...
gerar_codigo(i) == <<"C">> \o ZeroPad(i, 5)

\* gerar_celular from the generator state g: <<"(DD) 9XXXX-XXXX", new state>>
gerar_celular(g) ==
    LET ddd == Choice(g, DDDS)
        primeira == RandInt(ddd[2], 0, 9999)
        segunda == RandInt(primeira[2], 0, 9999)
    IN  <<<<"(">> \o ZeroPad(ddd[1], 2) \o <<")", " ", "9">> \o ZeroPad(primeira[1], 4)
          \o <<"-">> \o ZeroPad(segunda[1], 4), segunda[2]>>

CpfSpace == 4         \* the distinct national ids gerar_cpf can return, in the model

\* gerar_cpf from the generator state g: <<cpf, new state>>
gerar_cpf(g) == RandInt(g, 1, CpfSpace)

\* the e-mail loop trying the suffix 2 once, without looking again
EmailLivre_umaVez(local, domain, n, usados) ==
    LET email == local \o <<"@">> \o domain
    IN  IF email \in usados THEN local \o <<"2", "@">> \o domain ELSE email

RECURSIVE EmailLivre(_, _, _, _)
\* app.py 95-99: local<<"d", "o", "m", "a", "i", "n", ",", " ", "t", "h", "e", "n", " ", "l", "o", "c", "a", "l", "2">>domain, local3@domain, ... until unused
EmailLivre(local, domain, n, usados) ==
    LET email == local \o (IF n < 2 THEN <<>> ELSE IntToStr(n)) \o <<"@">> \o domain
    IN  IF email \in usados THEN EmailLivre(local, domain, Max(n, 1) + 1, usados) ELSE email

\* the names fake.name() returns
FakerNames ==
    <<<<"A", "n", "a", " ", "S", "á">>, <<"D", "r", "a", ".", " ", "A", "n", "a", " ", "d", "e", " ", "S", "a">>, <<"A", "N", "A", " ", "D", "O", "S", " ", "S", "A">>, <<"A", "n", "a", " ", "S", "a", "2">>, <<"B", "o">>, <<"S", "r", ".", " ", "D", "a">>>>

NoSeed == -2          \* seed is None

ClientArgs ==
    { [count |-> n, domain |-> <<"e", "x", ".", "c", "o", "m">>, seed |-> s] :
      n \in 0..MaxCount, s \in {NoSeed} \cup 0..MaxSeed }

\* ----------------------------------------------- _in_memory_clients, by step
\* app.py 69-84: the count checks, the Faker instance, the empty sets
ValidarClientes(r) ==
    /\ cliente[r].pc = "validate"
    /\ LET a == clienteArgs
       IN  cliente' = [cliente EXCEPT ![r] =
               IF a.count < 1
               THEN [@ EXCEPT !.pc = "done", !.status = 400, !.detail = "count must be >= 1"]
               ELSE IF a.count > MAX_CLIENTS
               THEN [@ EXCEPT !.pc = "done", !.status = 400, !.detail = "count exceeds limit"]
               ELSE [@ EXCEPT !.pc = "nome", !.i = 1, !.usados_cpf = {}, !.usados_email = {},
                              !.rows = <<>>,
                              !.fake = IF a.seed # NoSeed THEN RngSeed(a.seed) ELSE NoRng]]
    /\ UNCHANGED <<compraArgs, compra, clienteArgs, random_module, faker_random, drawers>>

\* app.py 87: the name, from the instance's own generator when it was seeded
\* and from the generator all unseeded Faker instances share otherwise
GerarNome(r) ==
    /\ cliente[r].pc = "nome"
    /\ IF cliente[r].fake # NoRng
       THEN LET d == Choice(cliente[r].fake, FakerNames)
            IN  /\ cliente' = [cliente EXCEPT ![r] =
                       [@ EXCEPT !.pc = "cpf", !.nome = gerar_nome(d[1]), !.fake = d[2]]]
                /\ UNCHANGED <<faker_random, drawers>>
       ELSE LET d == Choice(faker_random, FakerNames)
            IN  /\ cliente' = [cliente EXCEPT ![r] =
                       [@ EXCEPT !.pc = "cpf", !.nome = gerar_nome(d[1])]]
                /\ faker_random' = d[2]
                /\ drawers' = [drawers EXCEPT !["faker"] = @ \cup {r}]
    /\ UNCHANGED <<compraArgs, compra, clienteArgs, random_module>>

\* app.py 89-92: one gerar_cpf() call, from the process-wide generator; a
\* national id already used keeps the request in the loop
GerarCpf(r) ==
    /\ cliente[r].pc = "cpf"
    /\ LET d == gerar_cpf(random_module)
       IN  /\ cliente' = [cliente EXCEPT ![r] =
                  IF d[1] \in cliente[r].usados_cpf
                  THEN [@ EXCEPT !.cpf = d[1]]
                  ELSE [@ EXCEPT !.cpf = d[1], !.pc = "email",
                                 !.usados_cpf = @ \cup {d[1]}]]
           /\ random_module' = d[2]
    /\ drawers' = [drawers EXCEPT !["random"] = @ \cup {r}]
    /\ UNCHANGED <<compraArgs, compra, clienteArgs, faker_random>>

\* app.py 94-104: the e-mail, the phone (from the process-wide generator), the
\* customer code and the record
EmailCelular(r) ==
    /\ cliente[r].pc = "email"
    /\ LET c == cliente[r]
           email == EmailLivre(gerar_email_local(c.nome), clienteArgs.domain, 1, c.usados_email)
           cel == gerar_celular(random_module)
       IN  /\ cliente' = [cliente EXCEPT ![r] =
                  [@ EXCEPT !.usados_email = @ \cup {email},
                            !.rows = Append(@, <<gerar_codigo(c.i), c.nome, cel[1], c.cpf, email>>),
                            !.i = c.i + 1,
                            !.pc = IF c.i + 1 > clienteArgs.count THEN "export" ELSE "nome"]]
           /\ random_module' = cel[2]
    /\ drawers' = [drawers EXCEPT !["random"] = @ \cup {r}]
    /\ UNCHANGED <<compraArgs, compra, clienteArgs, faker_random>>

\* the CSV text: the header, then the records
CsvClientes(rows) ==
    << <<"CódigoCliente", "NomeCompleto", "Celular", "CPF", "Email">> >> \o rows

\* app.py 106-123: the records are encoded
ExportarClientes(r) ==
    /\ cliente[r].pc = "export"
    /\ cliente' = [cliente EXCEPT ![r] =
           [@ EXCEPT !.pc = "done", !.status = 200, !.csv = CsvClientes(cliente[r].rows)]]
    /\ UNCHANGED <<compraArgs, compra, clienteArgs, random_module, faker_random, drawers>>

InitClientes ==
    /\ clienteArgs \in {a \in ClientArgs : a.count <= MaxConcurrent}
    /\ cliente = [r \in Runs |-> [ClienteIdle EXCEPT !.pc = "validate"]]
    /\ compraArgs = NoArgs
    /\ compra = [r \in Runs |-> CompraIdle]
    /\ random_module \in 0..MaxEntropy
    /\ faker_random \in 0..MaxEntropy
    /\ drawers = [g \in {"random", "faker"} |-> {}]

NextClientes ==
    \E r \in Runs :
        \/ ValidarClientes(r)
        \/ GerarNome(r)
        \/ GerarCpf(r)
        \/ EmailCelular(r)
        \/ ExportarClientes(r)

SpecClientes == InitClientes /\ [][NextClientes]_vars

\* one customer request alone in the process
InitSolo ==
    /\ clienteArgs \in ClientArgs
    /\ cliente = [r \in Runs |-> IF r = 1 THEN [ClienteIdle EXCEPT !.pc = "validate"]
                                          ELSE ClienteIdle]
    /\ compraArgs = NoArgs
    /\ compra = [r \in Runs |-> CompraIdle]
    /\ random_module \in 0..MaxEntropy
    /\ faker_random \in 0..MaxEntropy
    /\ drawers = [g \in {"random", "faker"} |-> {}]

NextSolo ==
    \/ ValidarClientes(1)
    \/ GerarNome(1)
    \/ GerarCpf(1)
    \/ EmailCelular(1)
    \/ ExportarClientes(1)

SpecSolo == InitSolo /\ [][NextSolo]_vars

\* ------------------------------------------- any name out of fake.name()
\* the words of the names: plain, accented, connectors, a title, a suffix with
\* a dot, an apostrophe, a word with no allowed character
NameTokens == {<<"A", "n", "a">>, <<"S", "á">>, <<"d", "e">>, <<"D", "O", "S">>, <<"B", "o">>, <<"D", "'", "Á", "v", "i", "l", "a">>, <<"J", "r", ".">>, <<"&">>, <<"D", "r", "a", ".">>}

RECURSIVE JoinWords(_)
JoinWords(ws) ==
    IF Len(ws) = 1 THEN ws[1] ELSE ws[1] \o <<" ">> \o JoinWords(Tail(ws))

NameInputs ==
    {JoinWords(ws) : ws \in UNION {[1..n -> NameTokens] : n \in 1..MaxTokens}}

\* app.py 87 with fake.name() returning any of NameInputs
GerarNomeLivre(r) ==
    /\ cliente[r].pc = "nome"
    /\ \E raw \in NameInputs :
           cliente' = [cliente EXCEPT ![r] = [@ EXCEPT !.pc = "cpf", !.nome = gerar_nome(raw)]]
    /\ UNCHANGED <<compraArgs, compra, clienteArgs, random_module, faker_random, drawers>>

\* one request for one customer, alone in the process
InitNomes ==
    /\ clienteArgs \in {a \in ClientArgs : a.count = 1 /\ a.seed = NoSeed}
    /\ cliente = [r \in Runs |-> IF r = 1 THEN [ClienteIdle EXCEPT !.pc = "validate"]
                                          ELSE ClienteIdle]
    /\ compraArgs = NoArgs
    /\ compra = [r \in Runs |-> CompraIdle]
    /\ random_module \in 0..MaxEntropy
    /\ faker_random = 0
    /\ drawers = [g \in {"random", "faker"} |-> {}]

NextNomes ==
    \/ ValidarClientes(1)
    \/ GerarNomeLivre(1)
    \/ GerarCpf(1)
    \/ EmailCelular(1)
    \/ ExportarClientes(1)

SpecNomes == InitNomes /\ [][NextNomes]_vars

\* ================================================================ properties
\* -------------------------------------------------------- purchase requests
InputCodes == parse_client_codes(compraArgs.clients_csv).codes

Served(r) == compra[r].pc = "done" /\ compra[r].status = 200

CodesOf(rows) == {rows[k][1] : k \in 1..Len(rows)}

\* C1: the customer codes in the returned rows are exactly the input codes:
\* every input code is in some row and no row has a code that is not an input.
C1_Coverage ==
    \A r \in Runs : Served(r) => CodesOf(compra[r].rows) = Range(InputCodes)

\* a served request of several customers with rows added by the fill loop
C1_Witness ==
    /\ Served(1)
    /\ Cardinality(Range(InputCodes)) >= 3
    /\ Len(compra[1].rows) > Len(InputCodes)

\* C2: the number of returned rows is max(target_rows, number of customer
\* codes); a target below the customer count is raised, not rejected.
C2_RowCount ==
    \A r \in Runs :
        /\ Served(r) => Len(compra[r].rows) = Max(compraArgs.rows_total, Len(InputCodes))
        /\ (compra[r].pc = "done" /\ PurchaseError([compraArgs EXCEPT !.rows_total = 1]) = ""
              /\ compraArgs.rows_total \in 1..MAX_PURCHASES)
           => compra[r].status = 200

\* a served request whose target was below the number of customers
C2_Witness ==
    /\ Served(2)
    /\ compraArgs.rows_total < Len(InputCodes)
    /\ Len(compra[2].rows) = Len(InputCodes)

\* C3: rows are only ever appended; the row at position k <= n is written by
\* the coverage loop and carries the k-th input code; every row at a position
\* beyond n is written by the fill loop, after all n coverage rows.
C3_Ordering ==
    [][\A r \in Runs :
          LET old == compra[r].rows
              new == compra'[r].rows
              n == Len(InputCodes)
          IN  /\ Len(new) >= Len(old)
              /\ SubSeq(new, 1, Len(old)) = old
              /\ Len(new) <= Len(old) + 1
              /\ Len(new) = Len(old) + 1 =>
                    IF Len(new) <= n
                    THEN compra[r].pc = "coverage" /\ new[Len(new)][1] = InputCodes[Len(new)]
                    ELSE compra[r].pc = "fill"]_vars

\* a served request of three customers given out of sorted order, with fill rows
C3_Witness ==
    /\ Served(1)
    /\ Len(InputCodes) = 3
    /\ InputCodes[1] = Cod3
    /\ Len(compra[1].rows) > 3
    /\ compra[2].pc = "coverage"

\* C4: two requests with the same seed and the same arguments return the same
\* rows and the same CSV text.
C4_Determinism ==
    (compra[1].pc = "done" /\ compra[2].pc = "done")
    => /\ compra[1].status = compra[2].status
       /\ compra[1].rows = compra[2].rows
       /\ compra[1].csv = compra[2].csv

\* both requests served, with random dates, amounts, branches and fill customers
C4_Witness ==
    /\ Served(1) /\ Served(2)
    /\ Len(compra[1].rows) > Len(InputCodes)
    /\ Len(InputCodes) >= 2
    /\ Cardinality(Range(compra[1].datas)) >= 2
    /\ Len(compra[1].filiais) >= 2
    /\ compraArgs.valor_max > compraArgs.valor_min

\* C6: every amount, after rounding to 2 decimals, is within
\* [value_min, value_max], also for bounds with more than two decimals.
C6_AmountInRange ==
    \A r \in Runs : \A k \in 1..Len(compra[r].rows) :
        /\ compraArgs.valor_min <= compra[r].rows[k][3]
        /\ compra[r].rows[k][3] <= compraArgs.valor_max

\* C7: every DatePool entry is date_start plus 0..(date_end - date_start)
\* days, every row takes its date from the DatePool, so every purchase date
\* is within [date_start, date_end]; one single day gives that date only.
C7_DateInRange ==
    \A r \in Runs :
        LET inicio == Strptime(compraArgs.inicio_str)
            fim == Strptime(compraArgs.fim_str)
        IN  /\ \A k \in 1..Len(compra[r].datas) :
                   \E off \in 0..(fim - inicio) : compra[r].datas[k] = Strftime(inicio + off)
            /\ \A k \in 1..Len(compra[r].rows) :
                   /\ compra[r].rows[k][2] \in Range(compra[r].datas)
                   /\ inicio <= Strptime(compra[r].rows[k][2])
                   /\ Strptime(compra[r].rows[k][2]) <= fim
                   /\ inicio = fim => compra[r].rows[k][2] = Strftime(inicio)

\* a served request whose rows have the first and the last day of a range
\* that spans a leap day
C7_Witness ==
    /\ Served(1)
    /\ Strptime(compraArgs.fim_str) = Strptime(compraArgs.inicio_str) + 2
    /\ \E j, k \in 1..Len(compra[1].rows) :
           /\ Strptime(compra[1].rows[j][2]) = Strptime(compraArgs.inicio_str)
           /\ Strptime(compra[1].rows[k][2]) = Strptime(compraArgs.fim_str)

\* the preconditions of purchase generation, stated on the arguments
PreconditionViolated(a) ==
    \/ a.rows_total < 1
    \/ a.rows_total > MAX_PURCHASES
    \/ a.valor_max < a.valor_min
    \/ Strptime(a.inicio_str) = -1
    \/ Strptime(a.fim_str) = -1
    \/ Strptime(a.fim_str) < Strptime(a.inicio_str)
    \/ \A k \in 1..Len(CodeColumns) : CodeColumns[k] \notin Range(a.clients_csv.fieldnames)
    \/ parse_client_codes(a.clients_csv).codes = <<>>

Generated(r) == cliente[r].pc = "done" /\ cliente[r].status = 200

Column(rows, j) == [k \in 1..Len(rows) |-> rows[k][j]]

\* C5: with a seed given, two runs of the same count, domain and seed produce
\* the same names, the same phones and the same national ids.
C5_SeededIdentity ==
    (clienteArgs.seed # NoSeed /\ Generated(1) /\ Generated(2))
    => /\ Column(cliente[1].rows, 2) = Column(cliente[2].rows, 2)
       /\ Column(cliente[1].rows, 3) = Column(cliente[2].rows, 3)
       /\ Column(cliente[1].rows, 4) = Column(cliente[2].rows, 4)

\* C8: within one run, at any point of it, no two records share a national id
\* and no two share an e-mail address; the sets of used values are exactly
\* the values of the records written and of the record being built.
C8_Unique ==
    \A r \in Runs :
        LET c == cliente[r]
        IN  /\ \A j, k \in 1..Len(c.rows) :
                   j # k => c.rows[j][4] # c.rows[k][4] /\ c.rows[j][5] # c.rows[k][5]
            /\ c.usados_email = Range(Column(c.rows, 5))
            /\ c.usados_cpf = Range(Column(c.rows, 4))
                                \cup (IF c.pc = "email" THEN {c.cpf} ELSE {})

\* three records: one whose plain address is another local part with the
\* suffix 2, and a later one of that other local part that went on to suffix 3
C8_Witness ==
    /\ Generated(1)
    /\ Len(cliente[1].rows) = 3
    /\ \E j, k \in 1..3 :
           LET local_j == gerar_email_local(cliente[1].rows[j][2])
               local_k == gerar_email_local(cliente[1].rows[k][2])
           IN  /\ j < k
               /\ local_j = local_k \o <<"2">>
               /\ cliente[1].rows[j][5] = local_j \o <<"@">> \o clienteArgs.domain
               /\ cliente[1].rows[k][5] = local_k \o <<"3", "@">> \o clienteArgs.domain

\* C10: no process-wide generator is drawn from by more than one request, so
\* every request's output is what it produces when it runs alone.
C10_Isolation ==
    \A g \in DOMAIN drawers : Cardinality(drawers[g]) <= 1

\* C11: the fill row appended when k rows exist takes its date from DatePool
\* position k mod pool_size; the pool having as many entries as there are
\* rows, the j-th row (counted from 0) has the date at pool position j.
C11_FillDatePosition ==
    \A r \in Runs : \A j \in 1..Len(compra[r].rows) :
        compra[r].rows[j][2] = compra[r].datas[((j - 1) % Len(compra[r].datas)) + 1]

\* ------------------------------------------------------ e-mail local part
Placeholder == <<"c", "l", "i", "e", "n", "t", "e">>

\* the name tokens left after case-folding, diacritic stripping and removal
\* of the connector words
RemainingTokens(nome) ==
    SelectSeq(SplitWs(remove_accents(Lower(nome)), <<>>), LAMBDA t : t \notin Connectors)

\* the address of the first record of a run, whose local part met no collision
FirstAddress(local) == local \o <<"@">> \o clienteArgs.domain

\* C12 as stated: the local part is "cliente" whenever fewer than two tokens
\* remain, and the first and the last token joined by a dot otherwise.
C12_LocalPart ==
    Len(cliente[1].rows) >= 1 =>
        LET t == RemainingTokens(cliente[1].rows[1][2])
        IN  cliente[1].rows[1][5] =
                FirstAddress(IF Len(t) < 2 THEN Placeholder
                             ELSE t[1] \o <<".">> \o t[Len(t)])

\* C12 amended: the local part is "cliente" when no token remains; with one
\* remaining token it is that token alone and with two or more the first and
\* the last joined by a dot, reduced to the allowed characters with the outer
\* dots stripped, and "cliente" when that leaves nothing.
C12_LocalPartAmended ==
    Len(cliente[1].rows) >= 1 =>
        LET t == RemainingTokens(cliente[1].rows[1][2])
            joined == IF Len(t) = 1 THEN t[1] ELSE t[1] \o <<".">> \o t[Len(t)]
            clean == IF Len(t) = 0 THEN <<>> ELSE StripDots(SelectChars(joined, Permitido))
        IN  cliente[1].rows[1][5] = FirstAddress(IF clean = <<>> THEN Placeholder ELSE clean)

\* a record whose name has one remaining token, kept as the local part
C12_Witness ==
    /\ Generated(1)
    /\ Len(RemainingTokens(cliente[1].rows[1][2])) = 1
    /\ cliente[1].rows[1][5] = FirstAddress(RemainingTokens(cliente[1].rows[1][2])[1])
    /\ cliente[1].rows[1][5] # FirstAddress(Placeholder)

====
